---- MODULE Spec2Model ----
(***************************************************************************)
(* voice_prompt: the event-driven orchestration layer (src/app), the       *)
(* background tasks it dispatches, the glib timers it arms, and the hotkey *)
(* listener thread (src/hotkey).                                           *)
(*                                                                         *)
(* Every handler of the GTK main thread runs to completion before the next *)
(* one starts, so each handler is one action and every state of the model  *)
(* is a stable point between handlers.                                     *)
(***************************************************************************)
EXTENDS Integers, Sequences, FiniteSets, TLC

\* ------------------------------------------------------------------ bounds

\* Events the environment producers (forwarder, click, tick, progress) may
\* have waiting in the backend channel; the channel itself is unbounded.
MaxQueue == 2
\* Samples the capture callback appends during one recording.
MaxSamples == 1
\* Trigger signals not yet handled: waiting in the hotkey channel or
\* forwarded and waiting in the backend channel.
MaxPending == 1
\* Trigger signals the listener sends in a run of the listener alone.
MaxChan == 2
\* Prompts recorded in the stats before the user stops pressing the hotkey.
MaxPrompts == 1
\* The listener's clock is read in steps of ClockStepMs milliseconds, and the
\* time since the last trigger is told apart up to ElapsedCap milliseconds.
ClockStepMs == 50
ElapsedCap == 600
\* The capture of a new combination reads its clock in steps of
\* CaptureStepMs milliseconds.
CaptureStepMs == 5000

\* ------------------------------------------------------- program constants

DebounceMs == 500
InitialElapsedMs == 10000
TickPeriod == 12
NUM_BARS == 24
LevelHistoryCap == 24
RmsWindow == 1280
target_rate == 16000
CaptureTimeoutMs == 10000

KEY_LEFTCTRL == 29
KEY_LEFTSHIFT == 42
KEY_A == 30
KEY_SPACE == 57

\* -------------------------------------------------------------- data model

AppStatus == {"Idle", "Recording", "Processing", "ModelDownloading"}

PhaseNone == [kind |-> "None", text |-> <<>>]
PhaseRecording == [kind |-> "Recording", text |-> <<>>]
PhaseTranscribing == [kind |-> "Transcribing", text |-> <<>>]
PhaseRefining == [kind |-> "Refining", text |-> <<>>]
PhaseDone(text) == [kind |-> "Done", text |-> text]

\* Texts are sequences of characters.  Transcripts are what transcribe()
\* returns (already trimmed); GeminiTexts are candidate texts of a reply.
Transcripts == { <<"a", " ", "b">> }
GeminiTexts == { <<" ", "c">> }

\* A BackendEvent: its variant, its String payload, and for ProcessingError
\* the message prefix that names its origin.
\* An f32 level: the value sqrt(num / den), as compute_rms forms it.
Silence == [num |-> 0, den |-> 1]

\* Sample amplitudes the capture callback delivers: a silent microphone, or
\* one that also picks up sound.
SilentSamples == {0}
Samples == {0, 1}

Ev(type, text, src) ==
    [type |-> type, text |-> text, src |-> src, level |-> Silence]
HotkeyTriggered == Ev("HotkeyTriggered", <<>>, "")
TranscriptionComplete(t) == Ev("TranscriptionComplete", t, "")
RefinementComplete(t) == Ev("RefinementComplete", t, "")
ProcessingError(msg) == Ev("ProcessingError", <<>>, msg)
ModelDownloadProgress == Ev("ModelDownloadProgress", <<>>, "")
ModelDownloadComplete == Ev("ModelDownloadComplete", <<>>, "")
TimerTick == Ev("TimerTick", <<>>, "")
AudioLevel(level) == [Ev("AudioLevel", <<>>, "") EXCEPT !.level = level]
OverlayClicked == Ev("OverlayClicked", <<>>, "")

NoSource == 0

VARIABLES
    \* AppState (src/app/state.rs)
    status, overlay_phase, cpal_stream, timer_source, overlay_dismiss_source,
    recording_start, whisper_ctx, api_key, audio_buffer, overlay_visible,
    stats, audio_levels,
    \* the system clipboard
    clipboard,
    \* main loop and background runtime
    activated, queue, trans_tasks, refine_tasks, download_tasks, load_tasks,
    ctx_chan, dismiss_timers, tick_counter, hotkey_chan,
    \* hotkey listener thread
    platform, shared_hotkey, held_keys, any_event, elapsed,
    \* whether the listener thread runs, and whether the receiving end of
    \* the trigger channel is still there
    listening, rx_open,
    \* the Change Hotkey dialog, its capture thread, and the configuration
    dialog, capture, config,
    \* a Linux and a macOS listener fed the same key events
    twin,
    \* the default input device, AppState.sample_rate, and the decimation
    \* factor the capture callback of the open stream applies
    device, sample_rate, downsample_factor

appVars == <<status, overlay_phase, cpal_stream, timer_source,
             overlay_dismiss_source, recording_start, whisper_ctx, api_key,
             audio_buffer, overlay_visible, stats, audio_levels, clipboard,
             sample_rate, downsample_factor>>
rtVars == <<activated, queue, trans_tasks, refine_tasks, download_tasks,
            load_tasks, ctx_chan, dismiss_timers, tick_counter>>
lsVars == <<listening, rx_open>>
dlgVars == <<dialog, capture, config>>
hkVars == <<platform, shared_hotkey, held_keys, any_event, elapsed, lsVars,
           dlgVars, twin>>
vars == <<appVars, rtVars, hotkey_chan, hkVars, device>>

\* The session state and everything its handlers can reach, as one record:
\* a handler is a function from this record to the record it leaves behind.
World ==
    [status |-> status, overlay_phase |-> overlay_phase,
     cpal_stream |-> cpal_stream, timer_source |-> timer_source,
     overlay_dismiss_source |-> overlay_dismiss_source,
     recording_start |-> recording_start, whisper_ctx |-> whisper_ctx,
     api_key |-> api_key, audio_buffer |-> audio_buffer,
     overlay_visible |-> overlay_visible, stats |-> stats,
     audio_levels |-> audio_levels, sample_rate |-> sample_rate,
     downsample_factor |-> downsample_factor,
     clipboard |-> clipboard, queue |-> queue,
     trans_tasks |-> trans_tasks, refine_tasks |-> refine_tasks,
     download_tasks |-> download_tasks, load_tasks |-> load_tasks,
     dismiss_timers |-> dismiss_timers, tick_counter |-> tick_counter]

Commit(w) ==
    /\ status' = w.status
    /\ overlay_phase' = w.overlay_phase
    /\ cpal_stream' = w.cpal_stream
    /\ timer_source' = w.timer_source
    /\ overlay_dismiss_source' = w.overlay_dismiss_source
    /\ recording_start' = w.recording_start
    /\ whisper_ctx' = w.whisper_ctx
    /\ api_key' = w.api_key
    /\ audio_buffer' = w.audio_buffer
    /\ overlay_visible' = w.overlay_visible
    /\ stats' = w.stats
    /\ audio_levels' = w.audio_levels
    /\ sample_rate' = w.sample_rate
    /\ downsample_factor' = w.downsample_factor
    /\ clipboard' = w.clipboard
    /\ queue' = w.queue
    /\ trans_tasks' = w.trans_tasks
    /\ refine_tasks' = w.refine_tasks
    /\ download_tasks' = w.download_tasks
    /\ load_tasks' = w.load_tasks
    /\ dismiss_timers' = w.dismiss_timers
    /\ tick_counter' = w.tick_counter

RemoveAt(seq, i) == SubSeq(seq, 1, i - 1) \o SubSeq(seq, i + 1, Len(seq))

\* ------------------------------------------------------- src/app/state.rs

update_status(s, st) == [s EXCEPT !.status = st]

\* glib::SourceId::remove on the handle, if any.
TakeDismissSource(s) ==
    [s EXCEPT !.overlay_dismiss_source = NoSource,
              !.dismiss_timers = @ \ {s.overlay_dismiss_source}]

\* glib hands out a source id no live source has.
FreshSource(s) ==
    CHOOSE i \in 1..(Cardinality(s.dismiss_timers) + 1) :
        /\ i \notin s.dismiss_timers
        /\ \A j \in 1..(i - 1) : j \in s.dismiss_timers

\* ------------------------------------------------------- src/stats.rs

IsSpace(c) == c = " "

\* text.split_whitespace().count()
RECURSIVE WordCount(_)
WordCount(t) ==
    IF t = <<>> THEN 0
    ELSE IF IsSpace(Head(t)) THEN WordCount(Tail(t))
    ELSE IF Len(t) = 1 \/ IsSpace(t[2]) THEN 1 + WordCount(Tail(t))
    ELSE WordCount(Tail(t))

DefaultStats == [total_words |-> 0, total_prompts |-> 0, history |-> <<>>]

record_prompt_CountsChars(st, text) ==
    [total_words |-> st.total_words + Len(text),
     total_prompts |-> st.total_prompts + 1,
     history |-> Append(st.history,
                        [text |-> text, word_count |-> Len(text)])]

record_prompt(st, text) ==
    [total_words |-> st.total_words + WordCount(text),
     total_prompts |-> st.total_prompts + 1,
     history |-> Append(st.history,
                        [text |-> text, word_count |-> WordCount(text)])]

\* ------------------------------------------------------- src/clipboard.rs

EmptyClipboard == [written |-> FALSE, text |-> <<>>]

\* A text some other application copies.
OtherText == <<"x">>

\* The clipboard command either takes the text or fails and leaves the
\* clipboard as it was.
copy_to_clipboard(s, text, clip_ok) ==
    IF clip_ok
    THEN [s EXCEPT !.clipboard = [written |-> TRUE, text |-> text]]
    ELSE s

\* ----------------------------------------------- src/app/event_handler.rs

dismiss_overlay(s) ==
    [TakeDismissSource(s) EXCEPT !.overlay_phase = PhaseNone,
                                 !.overlay_visible = FALSE]

on_prompt_ready_RecordsBeforeCopy(s, text, clip_ok) ==
    LET counted == [s EXCEPT !.stats = record_prompt(@, text)]
    IN IF ~clip_ok
       THEN update_status(dismiss_overlay(counted), "Idle")
       ELSE LET copied == copy_to_clipboard(counted, text, TRUE)
                done == update_status(
                            [copied EXCEPT !.overlay_phase = PhaseDone(text)],
                            "Idle")
                id == FreshSource(done)
            IN [done EXCEPT !.overlay_dismiss_source = id,
                            !.dismiss_timers = @ \cup {id}]

on_prompt_ready(s, text, clip_ok) ==
    IF ~clip_ok
    THEN update_status(dismiss_overlay(s), "Idle")
    ELSE LET copied == copy_to_clipboard(s, text, TRUE)
             done == update_status(
                         [copied EXCEPT
                              !.stats = record_prompt(@, text),
                              !.overlay_phase = PhaseDone(text)], "Idle")
             id == FreshSource(done)
         IN [done EXCEPT !.overlay_dismiss_source = id,
                         !.dismiss_timers = @ \cup {id}]

\* ------------------------------------------------- src/app/pipeline.rs

dispatch_transcription_NoContextCheck(s, samples) ==
    [s EXCEPT !.trans_tasks = Append(@, samples)]

dispatch_transcription(s, samples) ==
    IF ~s.whisper_ctx
    THEN update_status(s, "Idle")
    ELSE [s EXCEPT !.trans_tasks = Append(@, samples)]

dispatch_refinement(s, transcript) ==
    [s EXCEPT !.refine_tasks =
                  Append(@, [api_key |-> s.api_key, transcript |-> transcript])]

\* ------------------------------------------------- src/app/model.rs

load_whisper_model(s) ==
    [update_status(s, "Processing") EXCEPT !.load_tasks = @ + 1]

ctx_received_StatusOnly(s) == update_status(s, "Idle")

\* Lines 83-90: the future on the main loop stores the received context,
\* then sets the status.
ctx_received(s) == update_status([s EXCEPT !.whisper_ctx = TRUE], "Idle")

ensure_whisper_model(s, exists) ==
    IF exists
    THEN load_whisper_model(s)
    ELSE [update_status(s, "ModelDownloading") EXCEPT !.download_tasks = @ + 1]

\* ------------------------------------------------- src/app/recording.rs

\* Lines 22-25: the buffer shared with the capture callback is cleared.
ClearBuffer(s) == [s EXCEPT !.audio_buffer = <<>>]

\* ------------------------------------------------------- src/recorder.rs

\* The default input device: whether one of its supported configurations
\* is mono f32 with 16 kHz in its range, and the rate of its default
\* configuration.
DefaultDevice == [offers_target |-> TRUE, default_rate |-> 48000]

\* start_capture, lines 19-41: the rate it returns (its native_rate) and the
\* factor its callback decimates by.  Rates are u32; the divisions truncate.
start_capture_RecordsTarget(dev) ==
    IF dev.offers_target
    THEN [native_rate |-> target_rate, downsample_factor |-> 1]
    ELSE LET rate == dev.default_rate
             factor == IF rate \div 16000 > 1 THEN rate \div 16000 ELSE 1
         IN [native_rate |-> target_rate, downsample_factor |-> factor]

start_capture(dev) ==
    IF dev.offers_target
    THEN [native_rate |-> target_rate, downsample_factor |-> 1]
    ELSE LET rate == dev.default_rate
             factor == IF rate \div 16000 > 1 THEN rate \div 16000 ELSE 1
             actual_rate == rate \div factor
         IN [native_rate |-> actual_rate, downsample_factor |-> factor]

\* Lines 34-49: the Ok arm of start_capture.
BeginCapture(s) ==
    [s EXCEPT !.cpal_stream = TRUE,
              !.sample_rate = start_capture(device).native_rate,
              !.downsample_factor = start_capture(device).downsample_factor,
              !.recording_start = TRUE,
              !.status = "Recording",
              !.overlay_phase = PhaseRecording,
              !.overlay_visible = TRUE]

\* compute_rms: the root mean square of the last RmsWindow samples.
RECURSIVE SumSq(_)
SumSq(samples) ==
    IF samples = <<>> THEN 0
    ELSE Head(samples) * Head(samples) + SumSq(Tail(samples))

compute_rms(buffer) ==
    LET n == IF Len(buffer) < RmsWindow THEN Len(buffer) ELSE RmsWindow
        sum_sq == SumSq(SubSeq(buffer, Len(buffer) - n + 1, Len(buffer)))
    IN IF n = 0 \/ sum_sq = 0 THEN Silence ELSE [num |-> sum_sq, den |-> n]

\* Lines 57-76: the 80 ms periodic source and its fresh counter.
ArmTick(s) == [s EXCEPT !.timer_source = TRUE, !.tick_counter = 0]

start_recording_NoCancel(s, open_ok) ==
    IF open_ok
    THEN ArmTick(BeginCapture(ClearBuffer(s)))
    ELSE update_status(ClearBuffer(s), "Idle")

start_recording_NoReturnOnError(s, open_ok) ==
    IF open_ok
    THEN ArmTick(BeginCapture(ClearBuffer(TakeDismissSource(s))))
    ELSE ArmTick(update_status(ClearBuffer(TakeDismissSource(s)), "Idle"))

start_recording_PhaseBeforeOpen(s, open_ok) ==
    LET cleared == ClearBuffer(TakeDismissSource(s))
        shown == [cleared EXCEPT !.overlay_phase = PhaseRecording,
                                 !.recording_start = TRUE]
    IN IF open_ok
       THEN ArmTick(BeginCapture(shown))
       ELSE update_status(shown, "Idle")

start_recording(s, open_ok) ==
    LET cleared == ClearBuffer(TakeDismissSource(s))
    IN IF open_ok
       THEN ArmTick(BeginCapture(cleared))
       ELSE update_status(cleared, "Idle")

\* Lines 95-99: the tick source is removed and the stream dropped.
ReleaseCapture(s) ==
    [s EXCEPT !.timer_source = FALSE, !.tick_counter = 0, !.cpal_stream = FALSE]

\* Lines 102-112: the overlay moves to Transcribing, the status to Processing.
ShowTranscribing(s) ==
    update_status([s EXCEPT !.overlay_phase = PhaseTranscribing], "Processing")

\* Lines 117-127: nothing captured.
NoAudioCaptured(s) ==
    update_status([s EXCEPT !.overlay_phase = PhaseNone,
                            !.overlay_visible = FALSE], "Idle")

stop_recording_NoTranscribingPhase(s) ==
    LET stopped == update_status(ReleaseCapture(s), "Processing")
    IN IF s.audio_buffer = <<>>
       THEN update_status(stopped, "Idle")
       ELSE dispatch_transcription(stopped, s.audio_buffer)

stop_recording_NoEmptyCheck(s) ==
    dispatch_transcription(ShowTranscribing(ReleaseCapture(s)), s.audio_buffer)

stop_recording_TakesBuffer(s) ==
    LET stopped == ShowTranscribing(ReleaseCapture(s))
        samples == s.audio_buffer
    IN IF samples = <<>>
       THEN NoAudioCaptured(stopped)
       ELSE dispatch_transcription([stopped EXCEPT !.audio_buffer = <<>>],
                                   samples)

stop_recording(s) ==
    LET stopped == ShowTranscribing(ReleaseCapture(s))
        samples == s.audio_buffer
    IN IF samples = <<>>
       THEN NoAudioCaptured(stopped)
       ELSE dispatch_transcription(stopped, samples)

\* -------------------------------- src/app/event_handler.rs: the state machine

HotkeyDispatch_ToggleUnlessIdle(current_status) ==
    IF current_status = "Idle" THEN "start" ELSE "stop"

HotkeyDispatch_StartUnlessRecording(current_status) ==
    IF current_status = "Recording" THEN "stop" ELSE "start"

HotkeyDispatch(current_status) ==
    CASE current_status = "Idle" -> "start"
      [] current_status = "Recording" -> "stop"
      [] OTHER -> "ignore"

on_hotkey_triggered(s, open_ok) ==
    LET arm == HotkeyDispatch(s.status)
    IN CASE arm = "start" -> start_recording(s, open_ok)
         [] arm = "stop" -> stop_recording(s)
         [] OTHER -> s

on_transcription_complete(s, transcript) ==
    dispatch_refinement(
        update_status([s EXCEPT !.overlay_phase = PhaseRefining], "Processing"),
        transcript)

on_processing_error_KeepsOverlay(s) == update_status(s, "Idle")

on_processing_error_KeepsStatus(s) == dismiss_overlay(s)

on_processing_error(s) == update_status(dismiss_overlay(s), "Idle")

on_model_download_complete_KeepsStatus(s) ==
    [s EXCEPT !.load_tasks = @ + 1]

on_model_download_complete(s) == load_whisper_model(s)

on_telemetry_TickEndsStaleOverlay(s, type) ==
    IF type = "TimerTick" /\ s.status # "Recording"
    THEN dismiss_overlay(s)
    ELSE s

\* The ModelDownloadProgress and TimerTick arms: they read the state and
\* write the progress bar or the timer label, nothing of the session state.
on_telemetry(s, type) == s

on_audio_level_CapOffByOne(s, level) ==
    LET levels == s.audio_levels
        room == IF Len(levels) > LevelHistoryCap THEN Tail(levels) ELSE levels
    IN [s EXCEPT !.audio_levels = Append(room, level)]

\* The AudioLevel arm: the level history drops its oldest entry once it holds
\* 24 and takes the new level at the back.
on_audio_level(s, level) ==
    LET levels == s.audio_levels
        room == IF Len(levels) >= LevelHistoryCap THEN Tail(levels) ELSE levels
    IN [s EXCEPT !.audio_levels = Append(room, level)]

on_overlay_clicked_NoRecopy(s, clip_ok) == dismiss_overlay(s)

on_overlay_clicked(s, clip_ok) ==
    IF s.overlay_phase.kind = "Done"
    THEN dismiss_overlay(copy_to_clipboard(s, s.overlay_phase.text, clip_ok))
    ELSE dismiss_overlay(s)

\* ------------------------------------------------- src/refiner.rs

RECURSIVE TrimStart(_)
TrimStart(t) ==
    IF t # <<>> /\ IsSpace(Head(t)) THEN TrimStart(Tail(t)) ELSE t

RECURSIVE TrimEnd(_)
TrimEnd(t) ==
    IF t # <<>> /\ IsSpace(t[Len(t)])
    THEN TrimEnd(SubSeq(t, 1, Len(t) - 1))
    ELSE t

Trim(t) == TrimEnd(TrimStart(t))

ApiKeys == {"", "key"}

\* What the remote call can come back with: a transport or HTTP error, a
\* reply without candidates, or a reply whose first candidate joins to text.
NetReplies ==
    {[kind |-> "error", text |-> <<>>], [kind |-> "nocandidates", text |-> <<>>]}
        \cup {[kind |-> "text", text |-> g] : g \in GeminiTexts}

Ok(v) == [ok |-> TRUE, val |-> v]
Err == [ok |-> FALSE, val |-> <<>>]

refine(key, transcript, net) ==
    IF key = ""
    THEN Ok(transcript)
    ELSE CASE net.kind = "error" -> Err
           [] net.kind = "nocandidates" -> Ok(Trim(transcript))
           [] OTHER -> Ok(Trim(net.text))

\* ----------------------------- src/app/pipeline.rs: the spawned tasks

TranscribeOutcomes ==
    {[kind |-> "ok", text |-> t] : t \in Transcripts}
        \cup {[kind |-> "err", text |-> <<>>], [kind |-> "panic", text |-> <<>>]}

TranscriptionEvent_PanicAsEmptyTranscript(result) ==
    CASE result.kind = "ok" -> TranscriptionComplete(result.text)
      [] result.kind = "err" -> ProcessingError("Transcription failed")
      [] OTHER -> TranscriptionComplete(<<>>)

TranscriptionEvent(result) ==
    CASE result.kind = "ok" -> TranscriptionComplete(result.text)
      [] result.kind = "err" -> ProcessingError("Transcription failed")
      [] OTHER -> ProcessingError("Transcription task panicked")

RefinementEvent_ErrorOnFailure(transcript, result) ==
    IF result.ok
    THEN RefinementComplete(result.val)
    ELSE ProcessingError("Refinement failed")

RefinementEvent(transcript, result) ==
    IF result.ok
    THEN RefinementComplete(result.val)
    ELSE RefinementComplete(transcript)

\* ------------------------------------------------- src/config.rs

\* HotkeyConfig, its modifiers as the set the listener tests with all().
DefaultHotkey == [modifiers |-> {KEY_LEFTCTRL}, trigger |-> KEY_SPACE]

Descriptors ==
    {DefaultHotkey,
     [modifiers |-> {KEY_LEFTCTRL, KEY_LEFTSHIFT}, trigger |-> KEY_SPACE]}

\* ------------------------------------- src/hotkey/linux.rs, macos.rs

Keys == {KEY_LEFTCTRL, KEY_LEFTSHIFT, KEY_SPACE}

\* An EV_KEY event: value 1 press, 0 release, 2 autorepeat.  rdev delivers
\* KeyPress (1) and KeyRelease (0).
KeyEvents == [code : Keys, value : {0, 1, 2}]
MacEvents == [code : Keys, value : {0, 1}]

ApplyKey(held, ev) ==
    CASE ev.value = 1 -> held \cup {ev.code}
      [] ev.value = 0 -> held \ {ev.code}
      [] OTHER -> held

HotkeyMatches_AnyModifier(hk, held) ==
    /\ \E m \in hk.modifiers : m \in held
    /\ hk.trigger \in held

HotkeyMatches(hk, held) ==
    /\ \A m \in hk.modifiers : m \in held
    /\ hk.trigger \in held

\* last_trigger.elapsed() > debounce
DebounceElapsed(e) == e > DebounceMs

\* last_trigger starts 10 s in the past.
InitialElapsed ==
    IF InitialElapsedMs < ElapsedCap THEN InitialElapsedMs ELSE ElapsedCap

\* ui/overlay.rs build_overlay: the level history starts as NUM_BARS zeros.
InitialLevels == [i \in 1..NUM_BARS |-> Silence]

\* capture_hotkey_combo (linux.rs 122-176, macos.rs 66-135) is_modifier.
ModifierCodes == {29, 97, 42, 54, 56, 100, 125, 126}

is_modifier(code) == code \in ModifierCodes

\* The capture thread of the Change Hotkey dialog: not started, running
\* (its held_keys and the time since it began), or returned with its result,
\* <<>> for None and <<c>> for Some(c), waiting in the dialog's channel.
IdleCapture == [phase |-> "idle", held_keys |-> {}, waited |-> 0,
                result |-> <<>>]

\* Two listeners started together: each one's held_keys and time since its
\* last trigger, and whether it sent a trigger at the present instant.
InitialTwin ==
    [linux_held |-> {}, linux_elapsed |-> InitialElapsed, linux_sent |-> FALSE,
     macos_held |-> {}, macos_elapsed |-> InitialElapsed, macos_sent |-> FALSE]

\* ------------------------------------------------------------------ actions

Init ==
    /\ status = "Idle"
    /\ overlay_phase = PhaseNone
    /\ cpal_stream = FALSE
    /\ timer_source = FALSE
    /\ overlay_dismiss_source = NoSource
    /\ recording_start = FALSE
    /\ whisper_ctx = FALSE
    /\ api_key \in ApiKeys
    /\ audio_buffer = <<>>
    /\ overlay_visible = FALSE
    /\ stats = DefaultStats
    /\ audio_levels = InitialLevels
    /\ clipboard = EmptyClipboard
    /\ activated = FALSE
    /\ queue = <<>>
    /\ trans_tasks = <<>>
    /\ refine_tasks = <<>>
    /\ download_tasks = 0
    /\ load_tasks = 0
    /\ ctx_chan = 0
    /\ dismiss_timers = {}
    /\ tick_counter = 0
    /\ hotkey_chan = 0
    /\ platform = "linux"
    /\ shared_hotkey = DefaultHotkey
    /\ held_keys = {}
    /\ any_event = FALSE
    /\ elapsed = InitialElapsed
    /\ listening = TRUE
    /\ rx_open = TRUE
    /\ dialog = "closed"
    /\ capture = IdleCapture
    /\ config = [hotkey |-> shared_hotkey, file |-> shared_hotkey]
    /\ twin = InitialTwin
    /\ device = DefaultDevice
    /\ sample_rate = target_rate
    /\ downsample_factor = 1

\* The events of one variant waiting in the backend channel.
RECURSIVE Waiting(_, _)
Waiting(q, type) ==
    IF q = <<>> THEN 0
    ELSE (IF Head(q).type = type THEN 1 ELSE 0) + Waiting(Tail(q), type)

\* What a handler of the main loop leaves alone besides the World record.
MainFrame == UNCHANGED <<activated, ctx_chan, hotkey_chan, hkVars, device>>

Received_Peek == World

\* The rest of the World after the head event has been received.
Received == [World EXCEPT !.queue = Tail(queue)]

Receives(type) == activated /\ queue # <<>> /\ Head(queue).type = type

\* main.rs on_activate: the last step of activation starts the model.
Activated(exists) ==
    /\ ~activated
    /\ activated' = TRUE
    /\ Commit(ensure_whisper_model(World, exists))
    /\ UNCHANGED <<ctx_chan, hotkey_chan, hkVars, device>>

Activate == \E exists \in BOOLEAN : Activated(exists)

\* The HotkeyTriggered arm, the input device opening or failing to open
\* should the arm start a recording.
HotkeyTriggeredHandled(open_ok) ==
    /\ Receives("HotkeyTriggered")
    /\ Commit(on_hotkey_triggered(Received, open_ok))
    /\ MainFrame

HandleHotkeyTriggered ==
    \E open_ok \in BOOLEAN : HotkeyTriggeredHandled(open_ok)

HandleTranscriptionComplete ==
    /\ Receives("TranscriptionComplete")
    /\ Commit(on_transcription_complete(Received, Head(queue).text))
    /\ MainFrame

\* The RefinementComplete arm, the clipboard command succeeding or failing.
RefinementCompleteHandled(clip_ok) ==
    /\ Receives("RefinementComplete")
    /\ Commit(on_prompt_ready(Received, Head(queue).text, clip_ok))
    /\ MainFrame

HandleRefinementComplete ==
    \E clip_ok \in BOOLEAN : RefinementCompleteHandled(clip_ok)

HandleProcessingError ==
    /\ Receives("ProcessingError")
    /\ Commit(on_processing_error(Received))
    /\ MainFrame

HandleModelDownloadComplete ==
    /\ Receives("ModelDownloadComplete")
    /\ Commit(on_model_download_complete(Received))
    /\ MainFrame

\* ModelDownloadProgress and TimerTick only touch widgets.
HandleTelemetry ==
    /\ \/ Receives("ModelDownloadProgress")
       \/ Receives("TimerTick")
    /\ Commit(on_telemetry(Received, Head(queue).type))
    /\ MainFrame

HandleAudioLevel ==
    /\ Receives("AudioLevel")
    /\ Commit(on_audio_level(Received, Head(queue).level))
    /\ MainFrame

\* The OverlayClicked arm, the clipboard command succeeding or failing
\* should the arm copy.
OverlayClickedHandled(clip_ok) ==
    /\ Receives("OverlayClicked")
    /\ Commit(on_overlay_clicked(Received, clip_ok))
    /\ MainFrame

HandleOverlayClicked ==
    \E clip_ok \in BOOLEAN : OverlayClickedHandled(clip_ok)

\* The 3 s once-timer armed by on_prompt_ready fires: glib destroys the
\* source after the callback, which runs dismiss_overlay.
DismissTimerFires ==
    /\ activated
    /\ \E id \in dismiss_timers :
           Commit([dismiss_overlay(World) EXCEPT !.dismiss_timers = @ \ {id}])
    /\ MainFrame

\* The 80 ms periodic source armed by start_recording fires.
TickEvents_TickBeforeLevel(count, rms) ==
    (IF count % TickPeriod = 0 THEN <<TimerTick>> ELSE <<>>)
        \o <<AudioLevel(rms)>>

TickEvents(count, rms) ==
    <<AudioLevel(rms)>>
        \o (IF count % TickPeriod = 0 THEN <<TimerTick>> ELSE <<>>)

Tick ==
    /\ activated
    /\ timer_source
    /\ Len(queue) < MaxQueue
    /\ Commit([World EXCEPT !.queue = @ \o TickEvents(tick_counter,
                                                     compute_rms(audio_buffer)),
                            !.tick_counter = (@ + 1) % TickPeriod])
    /\ MainFrame

\* The future load_whisper_model spawns on the main loop receives the context.
ReceiveCtx ==
    /\ activated
    /\ ctx_chan > 0
    /\ ctx_chan' = ctx_chan - 1
    /\ Commit(ctx_received(World))
    /\ UNCHANGED <<activated, hotkey_chan, hkVars, device>>

\* main.rs: the future that forwards trigger signals as HotkeyTriggered.
ForwardHotkey ==
    /\ activated
    /\ hotkey_chan > 0
    /\ hotkey_chan' = hotkey_chan - 1
    /\ Commit([World EXCEPT !.queue = Append(@, HotkeyTriggered)])
    /\ UNCHANGED <<activated, ctx_chan, hkVars, device>>

\* ui/overlay.rs: a click released on the (visible) overlay window.
OverlayClick ==
    /\ activated
    /\ overlay_visible
    /\ Len(queue) < MaxQueue
    /\ Commit([World EXCEPT !.queue = Append(@, OverlayClicked)])
    /\ MainFrame

\* Another application puts its own text on the system clipboard while the
\* finished prompt is shown.
ClipboardTaken ==
    /\ activated
    /\ overlay_phase.kind = "Done"
    /\ clipboard.text # OtherText
    /\ Commit([World EXCEPT !.clipboard = [written |-> TRUE,
                                           text |-> OtherText]])
    /\ MainFrame

\* main.rs: the API key row changed.
SetApiKey ==
    /\ activated
    /\ \E k \in ApiKeys : k # api_key /\ Commit([World EXCEPT !.api_key = k])
    /\ MainFrame

\* recorder.rs: the capture callback appends a mono sample.
AudioCallback(sample) ==
    /\ cpal_stream
    /\ Len(audio_buffer) < MaxSamples
    /\ Commit([World EXCEPT !.audio_buffer = Append(@, sample)])
    /\ MainFrame

CaptureSilence == \E sample \in SilentSamples : AudioCallback(sample)

CaptureSound == \E sample \in Samples : AudioCallback(sample)

\* ------------------------------------------------- background runtime

\* The task of dispatch_transcription for trans_tasks[i], the blocking
\* compute task ending with result.
TranscriptionTask(i, result) ==
    /\ Commit([World EXCEPT !.trans_tasks = RemoveAt(@, i),
                            !.queue = Append(@, TranscriptionEvent(result))])
    /\ MainFrame

CompleteTranscription ==
    \E i \in 1..Len(trans_tasks), result \in TranscribeOutcomes :
        TranscriptionTask(i, result)

\* The task of dispatch_refinement for refine_tasks[i], the remote call
\* coming back with net.
RefinementTask(i, net) ==
    LET task == refine_tasks[i]
        result == refine(task.api_key, task.transcript, net)
    IN /\ Commit([World EXCEPT
                      !.refine_tasks = RemoveAt(@, i),
                      !.queue = Append(@, RefinementEvent(task.transcript,
                                                          result))])
       /\ MainFrame

CompleteRefinement ==
    \E i \in 1..Len(refine_tasks), net \in NetReplies : RefinementTask(i, net)

DownloadProgress ==
    /\ download_tasks > 0
    /\ Len(queue) < MaxQueue
    /\ Commit([World EXCEPT !.queue = Append(@, ModelDownloadProgress)])
    /\ MainFrame

DownloadEvent_CompleteOnFailure(ok) == ModelDownloadComplete

DownloadEvent(ok) ==
    IF ok THEN ModelDownloadComplete
    ELSE ProcessingError("Model download failed")

\* The task ensure_whisper_model spawns, download_model returning ok or not.
DownloadTask(ok) ==
    /\ download_tasks > 0
    /\ Commit([World EXCEPT !.download_tasks = @ - 1,
                            !.queue = Append(@, DownloadEvent(ok))])
    /\ MainFrame

CompleteDownload == \E ok \in BOOLEAN : DownloadTask(ok)

LoadOutcomes == {"ok", "err", "panic"}

\* The task load_whisper_model spawns, the blocking load ending with result.
LoadTask(result) ==
    /\ load_tasks > 0
    /\ IF result = "ok"
       THEN /\ ctx_chan' = ctx_chan + 1
            /\ Commit([World EXCEPT !.load_tasks = @ - 1])
       ELSE /\ ctx_chan' = ctx_chan
            /\ Commit([World EXCEPT
                           !.load_tasks = @ - 1,
                           !.queue = Append(@, ProcessingError(
                               IF result = "err"
                               THEN "Failed to load model"
                               ELSE "Model load panicked"))])
    /\ UNCHANGED <<activated, hotkey_chan, hkVars, device>>

CompleteLoad == \E result \in LoadOutcomes : LoadTask(result)

\* The listener thread, seen from the orchestrator: a trigger signal may
\* arrive at any time (its matching and debounce are the listener actions).
TriggerSignal ==
    /\ hotkey_chan + Waiting(queue, "HotkeyTriggered") < MaxPending
    /\ stats.total_prompts < MaxPrompts
    /\ hotkey_chan' = hotkey_chan + 1
    /\ UNCHANGED <<appVars, rtVars, hkVars, device>>

\* ------------------------------------------------- the listener thread

\* listener_loop (linux.rs), lines 46-64: one fetched EV_KEY event updates
\* held_keys and marks the round as having seen an event.
LinuxEvent(ev) ==
    /\ platform = "linux"
    /\ listening
    /\ hotkey_chan < MaxChan
    /\ held_keys' = ApplyKey(held_keys, ev)
    /\ any_event' = TRUE
    /\ UNCHANGED <<appVars, rtVars, hotkey_chan, platform, shared_hotkey,
                   elapsed, lsVars, dlgVars, twin, device>>

\* listener_loop (linux.rs), lines 66-83: after the fetched events, the
\* round tests the match once; the next round starts with any_event false.
LinuxTest_DescriptorAtStart ==
    /\ platform = "linux"
    /\ listening
    /\ hotkey_chan < MaxChan
    /\ any_event' = FALSE
    /\ IF HotkeyMatches(DefaultHotkey, held_keys) /\ DebounceElapsed(elapsed)
       THEN /\ elapsed' = 0
            /\ IF rx_open
               THEN hotkey_chan' = hotkey_chan + 1 /\ listening' = listening
               ELSE hotkey_chan' = hotkey_chan /\ listening' = FALSE
       ELSE UNCHANGED <<elapsed, hotkey_chan, listening>>
    /\ UNCHANGED <<appVars, rtVars, platform, shared_hotkey, held_keys,
                   rx_open, dlgVars, twin, device>>

LinuxTest ==
    /\ platform = "linux"
    /\ listening
    /\ hotkey_chan < MaxChan
    /\ any_event' = FALSE
    /\ IF HotkeyMatches(shared_hotkey, held_keys) /\ DebounceElapsed(elapsed)
       THEN /\ elapsed' = 0
            /\ IF rx_open
               THEN hotkey_chan' = hotkey_chan + 1 /\ listening' = listening
               ELSE hotkey_chan' = hotkey_chan /\ listening' = FALSE
       ELSE UNCHANGED <<elapsed, hotkey_chan, listening>>
    /\ UNCHANGED <<appVars, rtVars, platform, shared_hotkey, held_keys,
                   rx_open, dlgVars, twin, device>>

\* The rdev callback (macos.rs): a KeyPress updates held_keys and tests the
\* match; a KeyRelease only updates held_keys.
MacCallback(ev) ==
    /\ platform = "macos"
    /\ listening
    /\ hotkey_chan < MaxChan
    /\ LET held == ApplyKey(held_keys, ev)
       IN /\ held_keys' = held
          /\ IF /\ ev.value = 1
                /\ HotkeyMatches(shared_hotkey, held)
                /\ DebounceElapsed(elapsed)
             THEN /\ elapsed' = 0
                  /\ hotkey_chan' = IF rx_open THEN hotkey_chan + 1
                                    ELSE hotkey_chan
             ELSE UNCHANGED <<elapsed, hotkey_chan>>
    /\ UNCHANGED <<appVars, rtVars, platform, shared_hotkey, any_event,
                   lsVars, dlgVars, twin, device>>

LinuxListener == \E ev \in KeyEvents : LinuxEvent(ev)

MacListener == \E ev \in MacEvents : MacCallback(ev)

\* Time passes on the listener's clock.
AdvanceTime ==
    /\ elapsed < ElapsedCap
    /\ elapsed' = IF elapsed + ClockStepMs < ElapsedCap
                  THEN elapsed + ClockStepMs
                  ELSE ElapsedCap
    /\ UNCHANGED <<appVars, rtVars, hotkey_chan, platform, shared_hotkey,
                   held_keys, any_event, lsVars, dlgVars, twin, device>>

InitHotkey ==
    /\ status = "Idle"
    /\ overlay_phase = PhaseNone
    /\ cpal_stream = FALSE
    /\ timer_source = FALSE
    /\ overlay_dismiss_source = NoSource
    /\ recording_start = FALSE
    /\ whisper_ctx = FALSE
    /\ api_key = ""
    /\ audio_buffer = <<>>
    /\ overlay_visible = FALSE
    /\ stats = DefaultStats
    /\ audio_levels = InitialLevels
    /\ clipboard = EmptyClipboard
    /\ activated = FALSE
    /\ queue = <<>>
    /\ trans_tasks = <<>>
    /\ refine_tasks = <<>>
    /\ download_tasks = 0
    /\ load_tasks = 0
    /\ ctx_chan = 0
    /\ dismiss_timers = {}
    /\ tick_counter = 0
    /\ hotkey_chan = 0
    /\ platform \in {"linux", "macos"}
    /\ shared_hotkey \in Descriptors
    /\ held_keys = {}
    /\ any_event = FALSE
    /\ elapsed = InitialElapsed
    /\ listening = TRUE
    /\ rx_open = TRUE
    /\ dialog = "closed"
    /\ capture = IdleCapture
    /\ config = [hotkey |-> shared_hotkey, file |-> shared_hotkey]
    /\ twin = InitialTwin
    /\ device = DefaultDevice
    /\ sample_rate = target_rate
    /\ downsample_factor = 1

NextHotkey ==
    \/ LinuxListener
    \/ LinuxTest
    \/ MacListener
    \/ AdvanceTime

SpecHotkey == InitHotkey /\ [][NextHotkey]_vars

\* One recording with a live microphone, from the state start_recording
\* leaves behind: samples arrive, the tick source fires, and the main loop
\* handles the telemetry.
InitLevels ==
    /\ status = "Recording"
    /\ overlay_phase = PhaseRecording
    /\ cpal_stream = TRUE
    /\ timer_source = TRUE
    /\ overlay_dismiss_source = NoSource
    /\ recording_start = TRUE
    /\ whisper_ctx = TRUE
    /\ api_key \in ApiKeys
    /\ audio_buffer = <<>>
    /\ overlay_visible = TRUE
    /\ stats = DefaultStats
    /\ audio_levels = InitialLevels
    /\ clipboard = EmptyClipboard
    /\ activated = TRUE
    /\ queue = <<>>
    /\ trans_tasks = <<>>
    /\ refine_tasks = <<>>
    /\ download_tasks = 0
    /\ load_tasks = 0
    /\ ctx_chan = 0
    /\ dismiss_timers = {}
    /\ tick_counter = 0
    /\ hotkey_chan = 0
    /\ platform = "linux"
    /\ shared_hotkey = DefaultHotkey
    /\ held_keys = {}
    /\ any_event = FALSE
    /\ elapsed = InitialElapsed
    /\ listening = TRUE
    /\ rx_open = TRUE
    /\ dialog = "closed"
    /\ capture = IdleCapture
    /\ config = [hotkey |-> shared_hotkey, file |-> shared_hotkey]
    /\ twin = InitialTwin
    /\ device = DefaultDevice
    /\ sample_rate = target_rate
    /\ downsample_factor = 1

NextLevels ==
    \/ CaptureSound
    \/ Tick
    \/ HandleTelemetry
    \/ HandleAudioLevel

SpecLevels == InitLevels /\ [][NextLevels]_vars

\* The listener while the user presses keys and holds them: key presses and
\* autorepeats arrive, no key is released.
HoldEvents == [code : Keys, value : {1, 2}]
PressEvents == [code : Keys, value : {1}]

LinuxHold == \E ev \in HoldEvents : LinuxEvent(ev)

MacHold == \E ev \in PressEvents : MacCallback(ev)

NextHold ==
    \/ LinuxHold
    \/ LinuxTest
    \/ MacHold
    \/ AdvanceTime

SpecHold == InitHotkey /\ [][NextHold]_vars

Next ==
    \/ Activate
    \/ HandleHotkeyTriggered
    \/ HandleTranscriptionComplete
    \/ HandleRefinementComplete
    \/ HandleProcessingError
    \/ HandleModelDownloadComplete
    \/ HandleTelemetry
    \/ HandleAudioLevel
    \/ HandleOverlayClicked
    \/ DismissTimerFires
    \/ Tick
    \/ ReceiveCtx
    \/ ForwardHotkey
    \/ OverlayClick
    \/ SetApiKey
    \/ CaptureSilence
    \/ CompleteTranscription
    \/ CompleteRefinement
    \/ DownloadProgress
    \/ CompleteDownload
    \/ CompleteLoad
    \/ TriggerSignal

Spec == Init /\ [][Next]_vars

\* The recording lifecycle with a live microphone, for recordings that end
\* before the tick source first fires.
NextCapture ==
    \/ Activate
    \/ HandleHotkeyTriggered
    \/ HandleTranscriptionComplete
    \/ HandleRefinementComplete
    \/ HandleProcessingError
    \/ HandleModelDownloadComplete
    \/ DismissTimerFires
    \/ ReceiveCtx
    \/ ForwardHotkey
    \/ CaptureSound
    \/ CompleteTranscription
    \/ CompleteRefinement
    \/ CompleteDownload
    \/ CompleteLoad
    \/ TriggerSignal

SpecCapture == Init /\ [][NextCapture]_vars

\* The orchestrator on a desktop where other applications use the
\* clipboard as well.
NextShared ==
    \/ Next
    \/ ClipboardTaken

SpecShared == Init /\ [][NextShared]_vars

\* The orchestrator with a user who clicks the overlay only while a
\* dispatched recording is being transcribed or refined.
MidPipelineClick ==
    /\ overlay_phase.kind \in {"Transcribing", "Refining"}
    /\ status = "Processing"
    /\ OverlayClick

NextMidClick ==
    \/ Activate
    \/ HandleHotkeyTriggered
    \/ HandleTranscriptionComplete
    \/ HandleRefinementComplete
    \/ HandleProcessingError
    \/ HandleModelDownloadComplete
    \/ HandleTelemetry
    \/ HandleAudioLevel
    \/ HandleOverlayClicked
    \/ DismissTimerFires
    \/ Tick
    \/ ReceiveCtx
    \/ ForwardHotkey
    \/ MidPipelineClick
    \/ SetApiKey
    \/ CaptureSilence
    \/ CompleteTranscription
    \/ CompleteRefinement
    \/ DownloadProgress
    \/ CompleteDownload
    \/ CompleteLoad
    \/ TriggerSignal

SpecMidClick == Init /\ [][NextMidClick]_vars

\* main.rs: the handler loop receives the head event and runs the arm of
\* handle_backend_event for its variant.
HandleBackendEvent ==
    \/ HandleHotkeyTriggered
    \/ HandleTranscriptionComplete
    \/ HandleRefinementComplete
    \/ HandleProcessingError
    \/ HandleModelDownloadComplete
    \/ HandleTelemetry
    \/ HandleAudioLevel
    \/ HandleOverlayClicked

\* Fairness: the main loop runs the handler loop, the forwarder and every
\* ready callback, and the background runtime runs every spawned task to
\* its end.
Fairness ==
    /\ WF_vars(HandleBackendEvent)
    /\ WF_vars(ForwardHotkey)
    /\ WF_vars(Activate)
    /\ WF_vars(ReceiveCtx)
    /\ WF_vars(DismissTimerFires)
    /\ WF_vars(CompleteTranscription)
    /\ WF_vars(CompleteRefinement)
    /\ WF_vars(CompleteDownload)
    /\ WF_vars(CompleteLoad)

FairSpec == Spec /\ Fairness

\* ------------------------------------------------------------------ claims

Busy == status \in {"Processing", "ModelDownloading"}

HeadIs(type) == queue # <<>> /\ Head(queue).type = type

InQueue(type) == \E i \in 1..Len(queue) : queue[i].type = type

\* C1: handling HotkeyTriggered while status is Processing or
\* ModelDownloading consumes the event and changes nothing else: status,
\* overlay_phase, the three handles, the audio buffer and the in-flight tasks
\* stay as they are, and nothing is left behind that would replay the trigger.
C1_HotkeyIgnoredWhileBusy ==
    [][(HandleHotkeyTriggered /\ Busy) =>
           /\ queue' = Tail(queue)
           /\ UNCHANGED <<appVars, activated, trans_tasks, refine_tasks,
                          download_tasks, load_tasks, ctx_chan, dismiss_timers,
                          tick_counter, hotkey_chan>>]_vars

C1_Witness ==
    /\ activated
    /\ status = "Processing"
    /\ trans_tasks # <<>>
    /\ HeadIs("HotkeyTriggered")

\* A completion event of the transcription or refinement step.
IsPipelineEvent(e) ==
    \/ e.type \in {"TranscriptionComplete", "RefinementComplete"}
    \/ /\ e.type = "ProcessingError"
       /\ e.src \in {"Transcription failed", "Transcription task panicked"}

RECURSIVE PipelineEvents(_)
PipelineEvents(q) ==
    IF q = <<>> THEN 0
    ELSE (IF IsPipelineEvent(Head(q)) THEN 1 ELSE 0) + PipelineEvents(Tail(q))

InFlight ==
    (IF cpal_stream THEN 1 ELSE 0) + Len(trans_tasks) + Len(refine_tasks)
        + PipelineEvents(queue)

\* C2: in every reachable state at most one capture / transcription /
\* refinement cycle is in flight: live capture streams plus pending
\* transcription tasks plus pending refinement tasks, a task counting until
\* its completion event has been handled, never exceed 1.
C2_OneCycleInFlight == InFlight <= 1

C2_Witness ==
    /\ refine_tasks # <<>>
    /\ InQueue("HotkeyTriggered")
    /\ InQueue("OverlayClicked")

\* C3: between handlers overlay_phase is never Recording while status is
\* not Recording.
C3_RecordingPhaseImpliesRecording ==
    overlay_phase = PhaseRecording => status = "Recording"

C3_Witness ==
    /\ overlay_phase = PhaseRecording
    /\ whisper_ctx
    /\ audio_buffer # <<>>
    /\ HeadIs("HotkeyTriggered")

\* C4 as claimed: every phase except None implies status Recording or
\* Processing.
C4_PhaseImpliesBusy ==
    overlay_phase # PhaseNone => status \in {"Recording", "Processing"}

\* C4 amended: Recording, Transcribing and Refining imply status Recording
\* or Processing, except that Transcribing stays with status Idle after a
\* dispatch that found no inference context; Done(_) goes with status Idle.
C4_PhaseStatusCoupling ==
    /\ overlay_phase.kind \in {"Recording", "Refining"}
           => status \in {"Recording", "Processing"}
    /\ overlay_phase.kind = "Transcribing"
           => \/ status \in {"Recording", "Processing"}
              \/ status = "Idle" /\ ~whisper_ctx
    /\ overlay_phase.kind = "Done" => status = "Idle"

C4_Witness ==
    /\ overlay_phase.kind = "Transcribing"
    /\ status = "Processing"
    /\ InQueue("ProcessingError")

\* C5: between handlers the capture handle exists iff the tick-timer handle
\* exists, and both exist iff status is Recording.
C5_HandlesIffRecording ==
    /\ cpal_stream <=> timer_source
    /\ cpal_stream <=> (status = "Recording")

C5_Witness ==
    /\ cpal_stream
    /\ timer_source
    /\ status = "Recording"
    /\ InQueue("TimerTick")
    /\ InQueue("OverlayClicked")

\* C6: between handlers a present dismiss-timer handle implies phase Done(_),
\* and at most one dismiss timer is armed (the one the handle names).
C6_DismissTimerOnlyWhileDone ==
    /\ overlay_dismiss_source # NoSource => overlay_phase.kind = "Done"
    /\ Cardinality(dismiss_timers) <= 1
    /\ dismiss_timers \subseteq {overlay_dismiss_source}

C6_Witness ==
    /\ overlay_dismiss_source # NoSource
    /\ overlay_dismiss_source \in dismiss_timers
    /\ InQueue("HotkeyTriggered")

\* C7: every handled TranscriptionComplete(t) submits exactly one refinement
\* task for t; that task ends by emitting exactly one event, a
\* RefinementComplete(r), never a ProcessingError, with r the refined text
\* when the refinement call succeeds and r = t when it fails; and every
\* submitted task does end.
C7_RefinementAlwaysCompletes ==
    /\ [][HandleTranscriptionComplete =>
              refine_tasks' = Append(refine_tasks,
                                     [api_key |-> api_key,
                                      transcript |-> Head(queue).text])]_vars
    /\ [][\A i \in 1..Len(refine_tasks), net \in NetReplies :
              RefinementTask(i, net) =>
                  LET t == refine_tasks[i].transcript
                      result == refine(refine_tasks[i].api_key, t, net)
                      r == IF result.ok THEN result.val ELSE t
                  IN /\ refine_tasks' = RemoveAt(refine_tasks, i)
                     /\ queue' = Append(queue, RefinementComplete(r))]_vars
    /\ (refine_tasks # <<>>) ~> InQueue("RefinementComplete")

C7_Witness ==
    /\ InQueue("RefinementComplete")
    /\ \E i \in 1..Len(queue) :
           queue[i].type = "RefinementComplete" /\ queue[i].text = <<"c">>

\* C8: stopping a recording whose buffer holds no sample ends with status
\* Idle and overlay_phase None, submits no task and emits no event.
C8_EmptyCaptureGoesIdle ==
    [][(HandleHotkeyTriggered /\ status = "Recording" /\ audio_buffer = <<>>) =>
           /\ status' = "Idle"
           /\ overlay_phase' = PhaseNone
           /\ queue' = Tail(queue)
           /\ UNCHANGED <<trans_tasks, refine_tasks, download_tasks,
                          load_tasks>>]_vars

C8_Witness ==
    /\ status = "Recording"
    /\ audio_buffer = <<>>
    /\ whisper_ctx
    /\ HeadIs("HotkeyTriggered")

\* A step in which the listener tests the match: the test that ends a round
\* of the Linux loop, or a KeyPress on macOS.
MatchTested ==
    \/ LinuxTest
    \/ \E c \in Keys : MacCallback([code |-> c, value |-> 1])

\* C9 as claimed: a key-match d ms after an accepted one sends no trigger
\* signal when d < 500 and sends one when d >= 500.
C9_DebounceAtLeast500 ==
    [][(MatchTested /\ hotkey_chan >= 1
            /\ HotkeyMatches(shared_hotkey, held_keys')) =>
           IF elapsed < DebounceMs
           THEN hotkey_chan' = hotkey_chan
           ELSE hotkey_chan' = hotkey_chan + 1]_vars

\* The listener processes the release of key k.
ReleaseProcessed(k) ==
    \/ LinuxEvent([code |-> k, value |-> 0])
    \/ MacCallback([code |-> k, value |-> 0])

\* C10: a trigger signal is sent only in a step whose test finds every
\* configured modifier code and the trigger code in held_keys, and a key
\* whose release has been processed is no longer in held_keys.
C10_TriggerOnlyWhenHeld ==
    /\ [][hotkey_chan' > hotkey_chan =>
              /\ shared_hotkey.modifiers \subseteq held_keys'
              /\ shared_hotkey.trigger \in held_keys']_vars
    /\ [][\A k \in Keys :
              ReleaseProcessed(k) =>
                  k \notin held_keys' /\ hotkey_chan' = hotkey_chan]_vars

C10_Witness ==
    /\ hotkey_chan = 1
    /\ elapsed = 0
    /\ Cardinality(shared_hotkey.modifiers) = 2
    /\ held_keys = Keys

\* C11 as claimed, for the Linux listener: while the combination is pressed
\* and held without any release, however long, the listener sends exactly
\* one trigger signal, so in a run without key releases at most one signal
\* is ever sent.
C11_HoldSendsOneTrigger == platform = "linux" => hotkey_chan <= 1

\* C12: the level history always holds 24 entries, and handling an
\* AudioLevel(l) drops the oldest entry and puts l at the back, the others
\* keeping their order; so after N >= 24 AudioLevel events the history is the
\* 24 most recently received levels in arrival order.
C12_LevelHistoryKeepsLast24 ==
    /\ [](Len(audio_levels) = 24)
    /\ [][HandleAudioLevel =>
              /\ Len(audio_levels') = 24
              /\ audio_levels'[24] = Head(queue).level
              /\ \A i \in 1..23 : audio_levels'[i] = audio_levels[i + 1]]_vars

\* At least 24 levels have been received since sound set in: none of the
\* initial entries is left.
C12_Witness == \A i \in 1..24 : audio_levels[i] # Silence

\* C13: when HotkeyTriggered is handled with status Idle while a Done
\* auto-dismiss timer is armed, the handler removes the timer and clears its
\* handle; no dismiss timer is armed while a cycle is under way (status
\* Recording or Processing), and a dismiss timer fires only in phase Done(_),
\* so it never resets the overlay_phase of a later cycle.
C13_StartCancelsDismissTimer ==
    /\ [][(HandleHotkeyTriggered /\ status = "Idle"
               /\ overlay_dismiss_source # NoSource) =>
              /\ dismiss_timers' = {}
              /\ overlay_dismiss_source' = NoSource]_vars
    /\ [](status \in {"Recording", "Processing"} => dismiss_timers = {})
    /\ [][DismissTimerFires => overlay_phase.kind = "Done"]_vars

C13_Witness ==
    /\ status = "Idle"
    /\ overlay_phase.kind = "Done"
    /\ dismiss_timers # {}
    /\ HeadIs("HotkeyTriggered")

\* The whitespace-separated words of a text: the positions where a word
\* starts.
Words(t) ==
    Cardinality({i \in 1..Len(t) :
                    t[i] # " " /\ (i = 1 \/ t[i - 1] = " ")})

\* C14: in a cycle with an empty credential the transcript t handled as
\* TranscriptionComplete(t) comes back unchanged as RefinementComplete(t);
\* handling RefinementComplete(t) with a successful clipboard copy leaves
\* exactly t on the clipboard, raises total_prompts by 1 and total_words by
\* the number of words of t, appends one history entry, and sets
\* overlay_phase Done(t) with status Idle and one dismiss timer armed; when
\* that timer fires overlay_phase becomes None.
C14_CompleteCycle ==
    /\ [][(HandleTranscriptionComplete /\ api_key = "") =>
              refine_tasks' = Append(refine_tasks,
                                     [api_key |-> "",
                                      transcript |-> Head(queue).text])]_vars
    /\ [][\A i \in 1..Len(refine_tasks), net \in NetReplies :
              (RefinementTask(i, net) /\ refine_tasks[i].api_key = "") =>
                  queue' = Append(queue, RefinementComplete(
                                             refine_tasks[i].transcript))]_vars
    /\ [][RefinementCompleteHandled(TRUE) =>
              LET t == Head(queue).text
              IN /\ clipboard' = [written |-> TRUE, text |-> t]
                 /\ stats'.total_prompts = stats.total_prompts + 1
                 /\ stats'.total_words = stats.total_words + Words(t)
                 /\ Len(stats'.history) = Len(stats.history) + 1
                 /\ SubSeq(stats'.history, 1, Len(stats.history))
                        = stats.history
                 /\ stats'.history[Len(stats'.history)].text = t
                 /\ overlay_phase' = PhaseDone(t)
                 /\ status' = "Idle"
                 /\ Cardinality(dismiss_timers') = 1]_vars
    /\ [][DismissTimerFires =>
              overlay_phase' = PhaseNone /\ dismiss_timers' = {}]_vars

\* The cycle has run with an empty credential and its overlay is gone: the
\* two-word transcript is on the clipboard and in the stats.
C14_Witness ==
    /\ api_key = ""
    /\ clipboard = [written |-> TRUE, text |-> <<"a", " ", "b">>]
    /\ stats.total_prompts = 1
    /\ stats.total_words = 2
    /\ Len(stats.history) = 1
    /\ overlay_phase = PhaseNone
    /\ status = "Idle"
    /\ dismiss_timers = {}

\* C15: when the clipboard copy fails while RefinementComplete is handled,
\* the handler ends with overlay_phase None and status Idle, leaves
\* total_prompts, total_words and history (and the clipboard) as they were,
\* leaves no dismiss timer armed, and starts nothing that would retry the
\* copy: the event is consumed, no event is enqueued and no task submitted.
C15_ClipboardFailureEndsCycle ==
    [][RefinementCompleteHandled(FALSE) =>
           /\ overlay_phase' = PhaseNone
           /\ status' = "Idle"
           /\ stats' = stats
           /\ clipboard' = clipboard
           /\ dismiss_timers' = {}
           /\ overlay_dismiss_source' = NoSource
           /\ queue' = Tail(queue)
           /\ UNCHANGED <<trans_tasks, refine_tasks, download_tasks,
                          load_tasks>>]_vars

\* A refined text waits to be delivered while the cycle shows Refining, and
\* the copy is about to fail.
C15_Witness ==
    /\ HeadIs("RefinementComplete")
    /\ overlay_phase = PhaseRefining
    /\ status = "Processing"
    /\ ENABLED RefinementCompleteHandled(FALSE)

\* A handler step in which an error is detected on the main thread: the
\* input device fails to open, a non-empty recording is dispatched without
\* an inference context, or the clipboard copy fails.
ErrorDetectedInHandler ==
    \/ HotkeyTriggeredHandled(FALSE) /\ status = "Idle"
    \/ /\ HandleHotkeyTriggered
       /\ status = "Recording"
       /\ audio_buffer # <<>>
       /\ ~whisper_ctx
    \/ RefinementCompleteHandled(FALSE)

\* C16 as claimed: every reported error reaches the orchestrator as a
\* ProcessingError event (so a handler that detects one enqueues it), and
\* the ProcessingError handler dismisses the overlay and sets status Idle.
C16_ErrorsFlowThroughProcessingError ==
    /\ [][ErrorDetectedInHandler =>
              /\ Len(queue') = Len(queue)
              /\ queue'[Len(queue')].type = "ProcessingError"]_vars
    /\ [][HandleProcessingError =>
              overlay_phase' = PhaseNone /\ status' = "Idle"]_vars

\* C17: a transcription task ends by leaving the runtime and enqueueing
\* exactly one event: TranscriptionComplete(text) when transcribe returns
\* text, a ProcessingError when it returns a failure and when the compute
\* task panics; and handling a ProcessingError leaves status Idle and
\* overlay_phase None.
C17_TranscriptionTaskEmitsOneEvent ==
    /\ [][\A i \in 1..Len(trans_tasks), result \in TranscribeOutcomes :
              TranscriptionTask(i, result) =>
                  /\ trans_tasks' = RemoveAt(trans_tasks, i)
                  /\ Len(queue') = Len(queue) + 1
                  /\ SubSeq(queue', 1, Len(queue)) = queue
                  /\ LET e == queue'[Len(queue')]
                     IN IF result.kind = "ok"
                        THEN /\ e.type = "TranscriptionComplete"
                             /\ e.text = result.text
                        ELSE e.type = "ProcessingError"]_vars
    /\ [][HandleProcessingError =>
              status' = "Idle" /\ overlay_phase' = PhaseNone]_vars

\* The compute task has panicked and its ProcessingError is next to be
\* handled, the cycle still showing Transcribing.
C17_Witness ==
    /\ HeadIs("ProcessingError")
    /\ Head(queue).src = "Transcription task panicked"
    /\ overlay_phase = PhaseTranscribing
    /\ status = "Processing"
    /\ trans_tasks = <<>>

\* C18: the backend channel is handled first-in first-out, nothing dropped
\* and nothing duplicated: an event leaves it only as the head, in the one
\* handler step that handles it, and every other change appends at the tail;
\* a trigger signal leaves the hotkey channel only by being forwarded as one
\* HotkeyTriggered; the forwarder, the background tasks and the handler loop
\* are never blocked by the length of the queue; and the head event is
\* always eventually handled and a waiting signal eventually forwarded, so
\* every enqueued event is eventually handled exactly once.
C18_EventsHandledInOrderOnce ==
    /\ [][HandleBackendEvent => queue' = Tail(queue)]_vars
    /\ [][\/ HandleBackendEvent
          \/ /\ Len(queue') >= Len(queue)
             /\ SubSeq(queue', 1, Len(queue)) = queue]_vars
    /\ [][hotkey_chan' < hotkey_chan =>
              /\ hotkey_chan' = hotkey_chan - 1
              /\ queue' = Append(queue, HotkeyTriggered)]_vars
    /\ [](activated /\ hotkey_chan > 0 => ENABLED ForwardHotkey)
    /\ [](activated /\ queue # <<>> => ENABLED HandleBackendEvent)
    /\ [](trans_tasks # <<>> => ENABLED CompleteTranscription)
    /\ [](refine_tasks # <<>> => ENABLED CompleteRefinement)
    /\ [](download_tasks > 0 => ENABLED CompleteDownload)
    /\ [](load_tasks > 0 => ENABLED CompleteLoad)
    /\ ([]<><<HandleBackendEvent>>_vars \/ <>[](queue = <<>>))
    /\ ([]<><<ForwardHotkey>>_vars \/ <>[](hotkey_chan = 0))

\* Events of three producers wait at once, more of them than the overlay
\* and the timers are let to enqueue, and a trigger signal waits behind.
C18_Witness ==
    /\ hotkey_chan = 1
    /\ Len(queue) > MaxQueue
    /\ Head(queue).type = "OverlayClicked"
    /\ queue[Len(queue)].type = "RefinementComplete"

\* C19: stopping a recording whose buffer is not empty while no inference
\* context is loaded submits no task to the background runtime, enqueues no
\* event, and leaves status Idle.
C19_DispatchWithoutContext ==
    [][(HandleHotkeyTriggered /\ status = "Recording"
            /\ audio_buffer # <<>> /\ ~whisper_ctx) =>
           /\ status' = "Idle"
           /\ queue' = Tail(queue)
           /\ UNCHANGED <<trans_tasks, refine_tasks, download_tasks,
                          load_tasks>>]_vars

\* A recording with samples is about to be stopped and there is no context:
\* the model download has failed.
C19_Witness ==
    /\ status = "Recording"
    /\ audio_buffer # <<>>
    /\ ~whisper_ctx
    /\ download_tasks = 0
    /\ load_tasks = 0
    /\ HeadIs("HotkeyTriggered")

\* C20 as claimed: between handlers status Idle implies overlay_phase None
\* or Done(_).
C20_IdleImpliesNoneOrDone ==
    status = "Idle" => overlay_phase.kind \in {"None", "Done"}

\* C21 as claimed: handling ModelDownloadComplete leaves status unchanged.
C21_DownloadCompleteKeepsStatus ==
    [][HandleModelDownloadComplete => status' = status]_vars

\* C21 amended: handling ModelDownloadComplete sets status Processing and
\* starts one model load without storing a context; while a load is pending
\* status stays Processing and changes only in the step that receives the
\* loaded context, which sets it Idle; after a failed load it becomes Idle
\* when the load's ProcessingError is handled, with no context stored.
C21_DownloadCompleteStartsLoad ==
    /\ [][HandleModelDownloadComplete =>
              /\ status' = "Processing"
              /\ load_tasks' = load_tasks + 1
              /\ whisper_ctx' = whisper_ctx
              /\ queue' = Tail(queue)]_vars
    /\ [](load_tasks > 0 \/ ctx_chan > 0 => status = "Processing")
    /\ [][((load_tasks > 0 \/ ctx_chan > 0) /\ status' # status) =>
              ReceiveCtx /\ whisper_ctx' /\ status' = "Idle"]_vars
    /\ [][(HandleProcessingError /\ Head(queue).src = "Failed to load model")
              => status' = "Idle" /\ ~whisper_ctx']_vars

\* The download has finished and its ModelDownloadComplete is next to be
\* handled, the status still ModelDownloading.
C21_Witness ==
    /\ activated
    /\ HeadIs("ModelDownloadComplete")
    /\ status = "ModelDownloading"
    /\ download_tasks = 0
    /\ load_tasks = 0

\* No model work is pending or done: no download, no load, no context on
\* its way or stored, no ModelDownloadComplete waiting.
NoModelWork ==
    /\ activated
    /\ download_tasks = 0
    /\ load_tasks = 0
    /\ ctx_chan = 0
    /\ ~whisper_ctx
    /\ ~InQueue("ModelDownloadComplete")

\* C22: with the model artifact missing, ensure_whisper_model sets status
\* ModelDownloading and spawns one download task; the task ends by emitting
\* exactly one event, ModelDownloadComplete when the download succeeds and
\* a ProcessingError when it fails; when that ProcessingError waits no model
\* work is left, handling it sets status Idle, and from then on the context
\* stays absent and no download or load is ever started.
C22_DownloadEndsWithOneEvent ==
    /\ [][Activated(FALSE) =>
              /\ status' = "ModelDownloading"
              /\ download_tasks' = 1
              /\ load_tasks' = 0
              /\ queue' = queue]_vars
    /\ [][\A ok \in BOOLEAN :
              DownloadTask(ok) =>
                  /\ download_tasks' = download_tasks - 1
                  /\ Len(queue') = Len(queue) + 1
                  /\ SubSeq(queue', 1, Len(queue)) = queue
                  /\ queue'[Len(queue')].type =
                         (IF ok THEN "ModelDownloadComplete"
                          ELSE "ProcessingError")]_vars
    /\ [](\A i \in 1..Len(queue) :
              queue[i].src = "Model download failed" => NoModelWork)
    /\ [][(HandleProcessingError /\ Head(queue).src = "Model download failed")
              => status' = "Idle"]_vars
    /\ [][NoModelWork => NoModelWork']_vars

\* The download has failed and its ProcessingError is next to be handled.
C22_Witness ==
    /\ HeadIs("ProcessingError")
    /\ Head(queue).src = "Model download failed"
    /\ status = "ModelDownloading"
    /\ ~whisper_ctx

LoadFailures == {"Failed to load model", "Model load panicked"}

\* C23: a model load ends in exactly one of two ways.  When load_model
\* returns a context, the task hands it over without emitting an event, and
\* the step that receives it stores it and sets status Idle, so while a load
\* is pending the status is not Idle and the first Idle state already has the
\* context.  When load_model returns a failure or panics, the task emits one
\* ProcessingError and hands over nothing, and from then on the context is
\* never stored.  At most one load is pending at a time.
C23_LoadEndsOneWay ==
    /\ [][\A result \in LoadOutcomes :
              LoadTask(result) =>
                  /\ load_tasks' = load_tasks - 1
                  /\ IF result = "ok"
                     THEN ctx_chan' = ctx_chan + 1 /\ queue' = queue
                     ELSE /\ ctx_chan' = ctx_chan
                          /\ Len(queue') = Len(queue) + 1
                          /\ SubSeq(queue', 1, Len(queue)) = queue
                          /\ queue'[Len(queue')].type = "ProcessingError"
                          /\ queue'[Len(queue')].src \in LoadFailures]_vars
    /\ [][ReceiveCtx =>
              /\ ctx_chan' = ctx_chan - 1
              /\ whisper_ctx'
              /\ status' = "Idle"]_vars
    /\ [](load_tasks + ctx_chan <= 1)
    /\ [](load_tasks + ctx_chan = 1 => status # "Idle" /\ ~whisper_ctx)
    /\ [][(load_tasks + ctx_chan = 1 /\ status' = "Idle") => whisper_ctx']_vars
    /\ [](\A i \in 1..Len(queue) : queue[i].src \in LoadFailures => NoModelWork)
    /\ [][whisper_ctx' # whisper_ctx => ReceiveCtx]_vars
    /\ [][NoModelWork => ~whisper_ctx' /\ ctx_chan' = 0]_vars

\* The load has succeeded: the context is stored, the status is Idle, and a
\* recording made with it is being transcribed.
C23_Witness ==
    /\ whisper_ctx
    /\ load_tasks = 0
    /\ ctx_chan = 0
    /\ status = "Processing"
    /\ trans_tasks # <<>>

\* C24 as claimed: recording_start is present exactly while status is
\* Recording, so it is absent whenever status is Idle or Processing.
C24_RecordingStartIffRecording == recording_start <=> status = "Recording"

\* C25: when the input device fails to open in start_recording, the handler
\* returns with status Idle, leaves overlay_phase as it was (so not set to
\* Recording), and creates no capture handle, no tick-timer handle and no
\* recording_start; it submits no task and enqueues no event.
C25_OpenFailureStaysIdle ==
    [][(HotkeyTriggeredHandled(FALSE) /\ status = "Idle") =>
           /\ status' = "Idle"
           /\ overlay_phase' = overlay_phase
           /\ overlay_phase' # PhaseRecording
           /\ ~cpal_stream'
           /\ ~timer_source'
           /\ recording_start' = recording_start
           /\ queue' = Tail(queue)
           /\ UNCHANGED <<trans_tasks, refine_tasks, download_tasks,
                          load_tasks>>]_vars

\* The device failed to open for a trigger that came while a finished
\* prompt was shown: the phase is still Done, its timer cancelled, and no
\* capture is running.
C25_Witness ==
    /\ status = "Idle"
    /\ overlay_phase.kind = "Done"
    /\ overlay_dismiss_source = NoSource
    /\ dismiss_timers = {}
    /\ ~cpal_stream
    /\ ~timer_source

\* C26 as claimed: in a run where no OverlayClicked event ever occurs,
\* whenever overlay_phase is Done(_) it eventually stops being Done.
C26_DoneEventuallyLeaves ==
    [](~InQueue("OverlayClicked"))
        => ((overlay_phase.kind = "Done") ~> (overlay_phase.kind # "Done"))

\* C27: handling OverlayClicked, in any state, consumes the event, leaves
\* status, the capture handle, the tick-timer handle, the audio buffer, the
\* stats and the in-flight tasks unchanged, sets overlay_phase None and
\* leaves no dismiss timer armed; it copies to the clipboard if and only if
\* the phase was Done(text), and then it copies exactly that text (the
\* clipboard holds it when the clipboard command succeeds).
C27_ClickDismissesAndRecopies ==
    [][\A clip_ok \in BOOLEAN :
           OverlayClickedHandled(clip_ok) =>
               /\ UNCHANGED <<status, cpal_stream, timer_source, audio_buffer,
                              stats, trans_tasks, refine_tasks, download_tasks,
                              load_tasks, tick_counter>>
               /\ queue' = Tail(queue)
               /\ overlay_phase' = PhaseNone
               /\ overlay_dismiss_source' = NoSource
               /\ dismiss_timers' = {}
               /\ clipboard' =
                      (IF overlay_phase.kind = "Done" /\ clip_ok
                       THEN [written |-> TRUE, text |-> overlay_phase.text]
                       ELSE clipboard)]_vars

\* A click on the finished prompt waits to be handled while the timer is
\* armed and the clipboard holds another application's text.
C27_Witness ==
    /\ HeadIs("OverlayClicked")
    /\ overlay_phase.kind = "Done"
    /\ dismiss_timers # {}
    /\ clipboard.text = OtherText

\* C28: handling a TimerTick, an AudioLevel or a ModelDownloadProgress, in
\* any state and at any queue position, consumes the event and leaves
\* status, overlay_phase, the capture, tick-timer and dismiss-timer handles,
\* the audio buffer, the stats, the clipboard and the in-flight tasks
\* unchanged.
C28_TelemetryLeavesStateAlone ==
    [][(HandleTelemetry \/ HandleAudioLevel) =>
           /\ queue' = Tail(queue)
           /\ UNCHANGED <<status, overlay_phase, overlay_visible, cpal_stream,
                          timer_source, overlay_dismiss_source, dismiss_timers,
                          recording_start, whisper_ctx, audio_buffer, stats,
                          clipboard, trans_tasks, refine_tasks, download_tasks,
                          load_tasks, ctx_chan, tick_counter>>]_vars

\* A TimerTick of a recording that has since been stopped is next to be
\* handled while the recording is being transcribed.
C28_Witness ==
    /\ HeadIs("TimerTick")
    /\ ~timer_source
    /\ status = "Processing"
    /\ overlay_phase = PhaseTranscribing
    /\ trans_tasks # <<>>

\* C29 as claimed: once a transcription has been dispatched, no
\* HotkeyTriggered or OverlayClicked cancels the cycle: when its
\* RefinementComplete(t) is handled and the clipboard copy succeeds, t is
\* copied to the clipboard, recorded in the stats and shown as Done(t), the
\* overlay window visible, also after a click dismissed the overlay while
\* Transcribing or Refining.
C29_CycleSurvivesClicks ==
    [][RefinementCompleteHandled(TRUE) =>
           LET t == Head(queue).text
           IN /\ clipboard' = [written |-> TRUE, text |-> t]
              /\ stats'.total_prompts = stats.total_prompts + 1
              /\ stats'.history[Len(stats'.history)].text = t
              /\ overlay_phase' = PhaseDone(t)
              /\ overlay_visible']_vars

\* C30 as claimed: between handlers the overlay window is visible if and
\* only if overlay_phase is not None.
C30_VisibleIffPhase == overlay_visible <=> overlay_phase # PhaseNone

\* C31: whenever status is Processing or ModelDownloading, status eventually
\* becomes Idle, with no further user input needed, given that every
\* background task ends (by success, returned failure or panic) and the
\* main loop keeps handling events.
C31_BusyLeadsToIdle ==
    (status \in {"Processing", "ModelDownloading"}) ~> (status = "Idle")

\* A cycle has gone from Processing back to Idle after the model was
\* downloaded or loaded: the prompt is recorded and shown as Done.
C31_Witness ==
    /\ status = "Idle"
    /\ whisper_ctx
    /\ stats.total_prompts = 1
    /\ overlay_phase.kind = "Done"
    /\ queue = <<>>

C33_TickEmitsLevelAndEvery12thTimer ==
    /\ [][Tick =>
              /\ status = "Recording"
              /\ queue' = queue
                   \o <<AudioLevel(compute_rms(audio_buffer))>>
                   \o (IF tick_counter = 0 THEN <<TimerTick>> ELSE <<>>)
              /\ tick_counter' = (tick_counter + 1) % 12]_vars
    /\ [](tick_counter \in 0..11)
    /\ [][(HandleHotkeyTriggered /\ status' = "Recording"
               /\ status # "Recording") =>
              timer_source' /\ tick_counter' = 0]_vars
    /\ [][tick_counter' # tick_counter => Tick \/ HandleHotkeyTriggered]_vars

\* Twelve firings of one recording have happened: the count is back at a
\* multiple of 12 and the last firing enqueued an AudioLevel alone.
C33_Witness ==
    /\ status = "Recording"
    /\ timer_source
    /\ tick_counter = 0
    /\ queue # <<>>
    /\ queue[Len(queue)].type = "AudioLevel"

\* C38: once the inference context is stored in the session state it is
\* never cleared, and the stored context changes only by the step that
\* receives a loaded one, which happens at most once; a transcription task
\* is in flight only in states where the context is present.
C38_ContextStaysAndGuardsTasks ==
    /\ [][whisper_ctx => whisper_ctx']_vars
    /\ [][ReceiveCtx => ~whisper_ctx]_vars
    /\ [](trans_tasks # <<>> => whisper_ctx)

\* A transcription is in flight with the context present, after the status
\* has been through Idle and Recording.
C38_Witness ==
    /\ whisper_ctx
    /\ trans_tasks # <<>>
    /\ load_tasks = 0
    /\ InQueue("HotkeyTriggered")

\* ------------------------------------------- the listener without consumer

\* The receiving end of the trigger channel is dropped: the forwarding
\* future that owns it ends (main.rs 138-145).
ConsumerGone ==
    /\ rx_open
    /\ rx_open' = FALSE
    /\ UNCHANGED <<appVars, rtVars, hotkey_chan, platform, shared_hotkey,
                   held_keys, any_event, elapsed, listening, dlgVars, twin,
                   device>>

NextExit ==
    \/ LinuxListener
    \/ LinuxTest
    \/ MacListener
    \/ AdvanceTime
    \/ ConsumerGone

SpecExit == InitHotkey /\ [][NextExit]_vars

\* A step in which the running listener accepts a match: the combination is
\* held, the debounce has elapsed, and last_trigger is reset.
AcceptsMatch ==
    /\ listening
    /\ DebounceElapsed(elapsed)
    /\ elapsed' = 0

\* C35 as claimed: once the receiving end of the trigger channel is gone,
\* the next match the listener accepts ends the listener thread, and a
\* listener that has ended neither scans keys nor sends.
C35_MatchAfterConsumerGoneEndsListener ==
    /\ [][(~rx_open /\ AcceptsMatch) => ~listening']_vars
    /\ [][~listening => (held_keys' = held_keys /\ hotkey_chan' = hotkey_chan
                         /\ ~listening')]_vars

\* ------------------------------------------- the Change Hotkey dialog

\* Keys the user presses while the dialog captures a combination.
CaptureKeys == Keys \cup {KEY_A}

CaptureEvents ==
    IF platform = "linux" THEN [code : CaptureKeys, value : {0, 1, 2}]
    ELSE [code : CaptureKeys, value : {0, 1}]

\* Option<HotkeyConfig>: <<>> for None, <<c>> for Some(c).
None == <<>>
Some(c) == <<c>>

\* capture_hotkey_combo (linux.rs 145-169, macos.rs 83-109): one key event.
\* A press is inserted into held_keys first; a press of a non-modifier with a
\* modifier among the held keys ends the capture with that combination.
capture_key_AnyPress(c, ev) ==
    LET held == ApplyKey(c.held_keys, ev)
    IN IF ev.value = 1 /\ ~is_modifier(ev.code)
       THEN [c EXCEPT !.phase = "returned", !.held_keys = held,
                      !.result = Some([modifiers |->
                                           {k \in held : is_modifier(k)},
                                       trigger |-> ev.code])]
       ELSE [c EXCEPT !.held_keys = held]

capture_key(c, ev) ==
    LET held == ApplyKey(c.held_keys, ev)
    IN IF /\ ev.value = 1
          /\ ~is_modifier(ev.code)
          /\ \E k \in held : is_modifier(k)
       THEN [c EXCEPT !.phase = "returned", !.held_keys = held,
                      !.result = Some([modifiers |->
                                           {k \in held : is_modifier(k)},
                                       trigger |-> ev.code])]
       ELSE [c EXCEPT !.held_keys = held]

\* main.rs 73-86, the closure the dialog calls with the capture's result:
\* Some(c) replaces the shared descriptor and the configuration's hotkey and
\* saves the configuration (a failed save is only logged); None does nothing.
on_result(hk, cfg, result, save_ok) ==
    IF result = None THEN [shared_hotkey |-> hk, config |-> cfg]
    ELSE [shared_hotkey |-> Head(result),
          config |-> [hotkey |-> Head(result),
                      file |-> IF save_ok THEN Head(result) ELSE cfg.file]]

DialogFrame ==
    UNCHANGED <<appVars, rtVars, hotkey_chan, platform, held_keys, any_event,
                elapsed, lsVars, twin, device>>

\* show_hotkey_dialog (hotkey_dialog.rs 12-40): the dialog is presented and
\* the capture thread started.  One capture runs at a time.
ShowDialog ==
    /\ dialog = "closed"
    /\ capture.phase = "idle"
    /\ dialog' = "open"
    /\ capture' = [IdleCapture EXCEPT !.phase = "running"]
    /\ UNCHANGED <<shared_hotkey, config>>
    /\ DialogFrame

\* The user chooses the dialog's only response, "cancel": the dialog goes
\* away and the response callback (hotkey_dialog.rs 40) does nothing.
CancelDialog ==
    /\ dialog = "open"
    /\ dialog' = "cancelled"
    /\ UNCHANGED <<capture, shared_hotkey, config>>
    /\ DialogFrame

\* linux.rs 123-126: no keyboard device could be opened.
CaptureNoDevices ==
    /\ platform = "linux"
    /\ capture.phase = "running"
    /\ capture.held_keys = {}
    /\ capture.waited = 0
    /\ capture' = [capture EXCEPT !.phase = "returned", !.result = None]
    /\ UNCHANGED <<dialog, shared_hotkey, config>>
    /\ DialogFrame

\* A key event reaches the capture: a round of the Linux loop that began
\* within the timeout, or the rdev callback within the timeout.
CaptureKeyed(ev) ==
    /\ capture.phase = "running"
    /\ ~(capture.waited > CaptureTimeoutMs)
    /\ ev \in CaptureEvents
    /\ capture' = capture_key(capture, ev)
    /\ UNCHANGED <<dialog, shared_hotkey, config>>
    /\ DialogFrame

CaptureKey ==
    \E ev \in [code : CaptureKeys, value : {0, 1, 2}] : CaptureKeyed(ev)

\* Time passes for the running capture.
CaptureWaits ==
    /\ capture.phase = "running"
    /\ ~(capture.waited > CaptureTimeoutMs)
    /\ capture' = [capture EXCEPT !.waited = @ + CaptureStepMs]
    /\ UNCHANGED <<dialog, shared_hotkey, config>>
    /\ DialogFrame

\* start.elapsed() > timeout (linux.rs 136-138, macos.rs 122-124).
CaptureTimesOut ==
    /\ capture.phase = "running"
    /\ capture.waited > CaptureTimeoutMs
    /\ capture' = [capture EXCEPT !.phase = "returned", !.result = None]
    /\ UNCHANGED <<dialog, shared_hotkey, config>>
    /\ DialogFrame

\* hotkey_dialog.rs 31-36: the future receives the capture's result, closes
\* the dialog and calls on_result.
ResultDelivered(save_ok) ==
    /\ capture.phase = "returned"
    /\ dialog' = "closed"
    /\ capture' = IdleCapture
    /\ LET after == on_result(shared_hotkey, config, capture.result, save_ok)
       IN /\ shared_hotkey' = after.shared_hotkey
          /\ config' = after.config
    /\ DialogFrame

DeliverResult == \E save_ok \in BOOLEAN : ResultDelivered(save_ok)

NextDialog ==
    \/ ShowDialog
    \/ CancelDialog
    \/ CaptureNoDevices
    \/ CaptureKey
    \/ CaptureWaits
    \/ CaptureTimesOut
    \/ DeliverResult

SpecDialog == InitHotkey /\ [][NextDialog]_vars

\* C36: a key event makes the capture return Some(c) exactly when it is a
\* press of a non-modifier key while the capture's held set has a modifier
\* (so the press it returns for is the first such press since it began);
\* c.trigger is the pressed code, c.modifiers is the set of held modifier
\* codes, which is not empty and does not contain c.trigger; and once more
\* than 10 s have passed the capture takes no key and returns None.
C36_CaptureReturnsFirstCombination ==
    /\ [][\A ev \in CaptureEvents :
              CaptureKeyed(ev) =>
                  LET held_mods == {k \in capture.held_keys : is_modifier(k)}
                      combo == /\ ev.value = 1
                               /\ ~is_modifier(ev.code)
                               /\ held_mods # {}
                  IN /\ (capture'.phase = "returned") <=> combo
                     /\ combo =>
                            /\ capture'.result # None
                            /\ Head(capture'.result).trigger = ev.code
                            /\ Head(capture'.result).modifiers = held_mods
                            /\ ev.code \notin held_mods]_vars
    /\ [][(capture.phase = "running" /\ capture'.phase = "returned"
           /\ capture'.result # None) =>
              \E ev \in CaptureEvents : CaptureKeyed(ev)]_vars
    /\ [][(capture.phase = "running" /\ capture.waited > CaptureTimeoutMs
           /\ capture' # capture) =>
              capture'.phase = "returned" /\ capture'.result = None]_vars

\* The capture has returned Ctrl+Shift+A some time into its 10 s, after
\* Space was pressed with no modifier held and is still held.
C36_Witness ==
    /\ capture.phase = "returned"
    /\ capture.result = Some([modifiers |-> {KEY_LEFTCTRL, KEY_LEFTSHIFT},
                              trigger |-> KEY_A])
    /\ capture.waited > 0
    /\ ~(capture.waited > CaptureTimeoutMs)
    /\ KEY_SPACE \in capture.held_keys

\* C39 as claimed: while the dialog has been cancelled, and when the capture
\* has returned None, no step changes the shared hotkey descriptor, the
\* configuration's hotkey, or the saved configuration.
C39_CancelOrTimeoutKeepsHotkey ==
    /\ [][dialog = "cancelled" =>
              shared_hotkey' = shared_hotkey /\ config' = config]_vars
    /\ [][(capture.phase = "returned" /\ capture.result = None) =>
              shared_hotkey' = shared_hotkey /\ config' = config]_vars

\* ------------------------------------------- rebinding the hotkey

\* Combinations the user may choose in the dialog that the listener's keys
\* can form and that differ from the configured one.
NewCombinations ==
    {[modifiers |-> {KEY_LEFTSHIFT}, trigger |-> KEY_SPACE],
     [modifiers |-> {KEY_LEFTCTRL, KEY_LEFTSHIFT}, trigger |-> KEY_SPACE]}

\* The capture thread as it is after returning Some(c).
ReturnedCapture(c) ==
    [phase |-> "returned", held_keys |-> c.modifiers \cup {c.trigger},
     waited |-> 0, result |-> Some(c)]

\* The listener runs with the default combination while the dialog's capture
\* has just returned a new one, not yet delivered to the main loop.
InitRebind ==
    /\ status = "Idle"
    /\ overlay_phase = PhaseNone
    /\ cpal_stream = FALSE
    /\ timer_source = FALSE
    /\ overlay_dismiss_source = NoSource
    /\ recording_start = FALSE
    /\ whisper_ctx = FALSE
    /\ api_key = ""
    /\ audio_buffer = <<>>
    /\ overlay_visible = FALSE
    /\ stats = DefaultStats
    /\ audio_levels = InitialLevels
    /\ clipboard = EmptyClipboard
    /\ activated = FALSE
    /\ queue = <<>>
    /\ trans_tasks = <<>>
    /\ refine_tasks = <<>>
    /\ download_tasks = 0
    /\ load_tasks = 0
    /\ ctx_chan = 0
    /\ dismiss_timers = {}
    /\ tick_counter = 0
    /\ hotkey_chan = 0
    /\ platform \in {"linux", "macos"}
    /\ shared_hotkey = DefaultHotkey
    /\ held_keys = {}
    /\ any_event = FALSE
    /\ elapsed = InitialElapsed
    /\ listening = TRUE
    /\ rx_open = TRUE
    /\ dialog = "open"
    /\ capture \in {ReturnedCapture(c) : c \in NewCombinations}
    /\ config = [hotkey |-> shared_hotkey, file |-> shared_hotkey]
    /\ twin = InitialTwin
    /\ device = DefaultDevice
    /\ sample_rate = target_rate
    /\ downsample_factor = 1

NextRebind ==
    \/ LinuxListener
    \/ LinuxTest
    \/ MacListener
    \/ AdvanceTime
    \/ DeliverResult

SpecRebind == InitRebind /\ [][NextRebind]_vars

\* C34: the delivery of a captured combination stores it as the shared
\* descriptor; from then on, with the same listener still running, a trigger
\* is sent only by a test that finds the stored descriptor's keys held, and
\* every test that finds them held after the debounce sends one, so the old
\* combination no longer triggers and the new one does.
C34_ListenerFollowsReplacedDescriptor ==
    /\ [][\A save_ok \in BOOLEAN :
              (ResultDelivered(save_ok) /\ capture.result # None) =>
                  shared_hotkey' = Head(capture.result)]_vars
    /\ [][hotkey_chan' > hotkey_chan =>
              HotkeyMatches(shared_hotkey', held_keys')]_vars
    /\ [][(LinuxTest /\ HotkeyMatches(shared_hotkey, held_keys)
           /\ DebounceElapsed(elapsed)) =>
              hotkey_chan' = hotkey_chan + 1]_vars
    /\ [][\A ev \in MacEvents :
              (MacCallback(ev) /\ ev.value = 1
               /\ HotkeyMatches(shared_hotkey, held_keys')
               /\ DebounceElapsed(elapsed)) =>
                  hotkey_chan' = hotkey_chan + 1]_vars
    /\ [](listening /\ shared_hotkey = config.hotkey)

\* Shift+Space has replaced Ctrl+Space, and a trigger has just been sent
\* with Shift and Space held and Ctrl not held.
C34_Witness ==
    /\ dialog = "closed"
    /\ shared_hotkey = [modifiers |-> {KEY_LEFTSHIFT}, trigger |-> KEY_SPACE]
    /\ held_keys = {KEY_LEFTSHIFT, KEY_SPACE}
    /\ hotkey_chan = 1
    /\ elapsed = 0

\* ------------------------------------------- the two listeners side by side

\* listener_loop (linux.rs 66-78): the match test that ends a polling round.
twin_linux_test(tw, hk) ==
    IF HotkeyMatches(hk, tw.linux_held) /\ DebounceElapsed(tw.linux_elapsed)
    THEN [tw EXCEPT !.linux_elapsed = 0, !.linux_sent = TRUE]
    ELSE tw

\* listener_loop (linux.rs 46-64): a round that fetched one key event.
twin_linux_round(tw, ev, hk) ==
    twin_linux_test([tw EXCEPT !.linux_held = ApplyKey(@, ev)], hk)

\* The rdev callback (macos.rs 29-54) for one key event.
twin_macos_callback(tw, ev, hk) ==
    LET held == ApplyKey(tw.macos_held, ev)
    IN IF /\ ev.value = 1
          /\ HotkeyMatches(hk, held)
          /\ DebounceElapsed(tw.macos_elapsed)
       THEN [tw EXCEPT !.macos_held = held, !.macos_elapsed = 0,
                       !.macos_sent = TRUE]
       ELSE [tw EXCEPT !.macos_held = held]

TwinFrame ==
    UNCHANGED <<appVars, rtVars, hotkey_chan, platform, shared_hotkey,
                held_keys, any_event, elapsed, lsVars, dlgVars, device>>

\* One key press or release reaches both listeners at the present instant.
BothHear(ev) ==
    /\ twin' = twin_macos_callback(twin_linux_round(twin, ev, shared_hotkey),
                                   ev, shared_hotkey)
    /\ TwinFrame

BothListeners == \E ev \in MacEvents : BothHear(ev)

\* A polling round of the Linux loop in which no event arrived; the rdev
\* callback does not run without an event.
LinuxIdleRound ==
    /\ twin' = twin_linux_test(twin, shared_hotkey)
    /\ twin' # twin
    /\ TwinFrame

\* Time passes for both listeners; the next instant begins.
TwinAdvanceTime ==
    /\ twin.linux_elapsed < ElapsedCap \/ twin.macos_elapsed < ElapsedCap
          \/ twin.linux_sent \/ twin.macos_sent
    /\ LET later(e) == IF e + ClockStepMs < ElapsedCap THEN e + ClockStepMs
                       ELSE ElapsedCap
       IN twin' = [twin EXCEPT !.linux_elapsed = later(@),
                               !.macos_elapsed = later(@),
                               !.linux_sent = FALSE,
                               !.macos_sent = FALSE]
    /\ TwinFrame

NextTwin ==
    \/ BothListeners
    \/ LinuxIdleRound
    \/ TwinAdvanceTime

SpecTwin == InitHotkey /\ [][NextTwin]_vars

\* C37 as claimed: fed the same key presses and releases at the same times,
\* with the same descriptor, the Linux listener and the macOS listener send
\* a trigger at the same instants.
C37_ListenersSendAtSameInstants == twin.linux_sent = twin.macos_sent

\* ------------------------------------------- capture rates

\* Rates a default input configuration may have: common device rates, and
\* the rates around the multiples of 16000.
NativeRates ==
    {8000, 11025, 22050, 44100, 88200, 96000, 176400, 192000}
        \cup (15999..16001) \cup (31999..32002) \cup (47999..48003)

Devices == [offers_target : BOOLEAN, default_rate : NativeRates]

\* The session of Init with any of the devices as the default input.
InitRates ==
    /\ status = "Idle"
    /\ overlay_phase = PhaseNone
    /\ cpal_stream = FALSE
    /\ timer_source = FALSE
    /\ overlay_dismiss_source = NoSource
    /\ recording_start = FALSE
    /\ whisper_ctx = FALSE
    /\ api_key \in ApiKeys
    /\ audio_buffer = <<>>
    /\ overlay_visible = FALSE
    /\ stats = DefaultStats
    /\ audio_levels = InitialLevels
    /\ clipboard = EmptyClipboard
    /\ activated = FALSE
    /\ queue = <<>>
    /\ trans_tasks = <<>>
    /\ refine_tasks = <<>>
    /\ download_tasks = 0
    /\ load_tasks = 0
    /\ ctx_chan = 0
    /\ dismiss_timers = {}
    /\ tick_counter = 0
    /\ hotkey_chan = 0
    /\ platform = "linux"
    /\ shared_hotkey = DefaultHotkey
    /\ held_keys = {}
    /\ any_event = FALSE
    /\ elapsed = InitialElapsed
    /\ listening = TRUE
    /\ rx_open = TRUE
    /\ dialog = "closed"
    /\ capture = IdleCapture
    /\ config = [hotkey |-> shared_hotkey, file |-> shared_hotkey]
    /\ twin = InitialTwin
    /\ device \in Devices
    /\ sample_rate = target_rate
    /\ downsample_factor = 1

SpecRates == InitRates /\ [][NextCapture]_vars

\* C40 as claimed: while a stream of a device without a 16 kHz mono f32
\* configuration is open, the decimation factor is max(1, r div 16000) and
\* the recorded sample rate is r div factor; for r >= 16000 that rate is at
\* least 16000 and below 32000, and it is 16000 only when r is an exact
\* multiple of 16000.
C40_RateIsTargetOnlyForMultiples ==
    (cpal_stream /\ ~device.offers_target) =>
        LET r == device.default_rate
            factor == IF r \div 16000 > 1 THEN r \div 16000 ELSE 1
        IN /\ downsample_factor = factor
           /\ sample_rate = r \div factor
           /\ r >= 16000 => (sample_rate >= 16000 /\ sample_rate < 32000)
           /\ (r >= 16000 /\ sample_rate = 16000) => r % 16000 = 0

\* C40, amended: the factor, the recorded rate and its range are as
\* claimed, and for r >= 16000 the recorded rate is 16000 exactly when the
\* remainder of r by 16000 is smaller than the factor, which covers every
\* exact multiple of 16000 and also rates just above a multiple from 32000
\* on (32001 is recorded as 16000).
C40_RateIsTargetWhenRemainderBelowFactor ==
    (cpal_stream /\ ~device.offers_target) =>
        LET r == device.default_rate
            factor == IF r \div 16000 > 1 THEN r \div 16000 ELSE 1
        IN /\ downsample_factor = factor
           /\ sample_rate = r \div factor
           /\ r >= 16000 => (sample_rate >= 16000 /\ sample_rate < 32000)
           /\ r >= 16000 => (sample_rate = 16000 <=> r % 16000 < factor)

\* A stream of a 32001 Hz device is open: every second frame is kept and the
\* recorded rate is 16000.
C40_Witness ==
    /\ cpal_stream
    /\ ~device.offers_target
    /\ device.default_rate = 32001
    /\ downsample_factor = 2
    /\ sample_rate = target_rate

====
